---- MODULE Spec2Model ----
(***************************************************************************)
(* Rule-based topic matching (src/demo_2025/rule_based_topic_matching.py). *)
(*                                                                         *)
(* main() walks the text files of a directory; for each file it reads the  *)
(* sentences, tags exact matches, strong fuzzy matches and weak fuzzy      *)
(* matches, deduplicates the three tier records of the document and        *)
(* appends the raw and the clean rows to two corpus-wide tables; after the *)
(* loop it computes the count statistics.                                  *)
(*                                                                         *)
(* Representation.  A Python str is a sequence of one-character strings.   *)
(* A data frame is the sequence of its rows (records); the row index and   *)
(* the order in which groupby sorts the groups are not modelled.  A score  *)
(* is the exact rational num/den; thresholds are in tenths of a point.     *)
(***************************************************************************)
EXTENDS Integers, Sequences, FiniteSets, TLC

VARIABLES
    text_path,          \* the files of the directory, as os.listdir lists them
    all_text_files,     \* files of text_path not yet visited by the loop of main
    topic,              \* the topic argument: a list of surface forms or one pattern string
    pc,                 \* position of main
    work_id,            \* read_text: stem of the current file
    body_text,          \* read_text: stripped lines of the current file
    exact_tags,         \* tag_dict returned by tag_exact
    strong_fuzzy_tags,  \* tag_dict returned by tag_fuzzy(..., "strong", ...)
    weak_fuzzy_tags,    \* tag_dict returned by tag_fuzzy(..., "weak", ...)
    control,            \* per tier: what create_control_tags returned inside tag_fuzzy
    redundant,          \* per tier: what tag_redundant_matches returned inside tag_fuzzy
    flag_for_zeroshot,  \* per tier: flag_for_zeroshot at the end of tag_fuzzy
    tags_df,            \* clean_rb_tags(tags) of the current file
    dirty_tags_df,      \* main: corpus-wide raw table
    clean_tags_df,      \* main: corpus-wide clean table
    comparison_df       \* main: result of analysis_of_tag_redundancy

vars == <<text_path, all_text_files, topic, pc, work_id, body_text, exact_tags,
          strong_fuzzy_tags, weak_fuzzy_tags, control, redundant,
          flag_for_zeroshot, tags_df, dirty_tags_df, clean_tags_df,
          comparison_df>>

-----------------------------------------------------------------------------
(* Bounds of the model. *)

\* longest document of the generic corpora, in sentences
MaxSentences == 2
\* longest list topic of the generic runs, in surface forms
MaxForms == 2
\* most matches of one tier record handed directly to clean_rb_tags
MaxRows == 1
\* most files of the generic directories
MaxFiles == 2

-----------------------------------------------------------------------------
(* Python values. *)

None == "None"
\* pandas' missing value in a tag or snippet cell (explode of an empty list)
NaN == <<"NaN">>
\* pandas' missing value in a section_id cell
NaNSection == 0

Max(a, b) == IF a >= b THEN a ELSE b

Range(s) == {s[i] : i \in DOMAIN s}

\* [x] * n
Repeat(x, n) == [i \in 1..n |-> x]

RECURSIVE Flatten(_)
\* concatenation of a sequence of sequences
Flatten(ss) == IF ss = <<>> THEN <<>> ELSE Head(ss) \o Flatten(Tail(ss))

UpperCase == <<"A","B","C","D","E","F","G","H","I","J","K","L","M",
               "N","O","P","Q","R","S","T","U","V","W","X","Y","Z">>
LowerCase == <<"a","b","c","d","e","f","g","h","i","j","k","l","m",
               "n","o","p","q","r","s","t","u","v","w","x","y","z">>
Digits == {"0","1","2","3","4","5","6","7","8","9"}
Whitespace == {" ", "\n", "\t"}

\* str.lower() on one character
LowerChar(c) ==
    IF \E i \in DOMAIN UpperCase : UpperCase[i] = c
    THEN LowerCase[CHOOSE i \in DOMAIN UpperCase : UpperCase[i] = c]
    ELSE c

\* str.lower()
lower(s) == [i \in DOMAIN s |-> LowerChar(s[i])]

RECURSIVE lstrip(_)
lstrip(s) == IF s # <<>> /\ Head(s) \in Whitespace THEN lstrip(Tail(s)) ELSE s

RECURSIVE rstrip(_)
rstrip(s) ==
    IF s # <<>> /\ s[Len(s)] \in Whitespace
    THEN rstrip(SubSeq(s, 1, Len(s) - 1)) ELSE s

\* str.strip()
strip(s) == lstrip(rstrip(s))

\* the regular expression class \w
IsWord(c) == c \in Range(UpperCase) \cup Range(LowerCase) \cup Digits \cup {"_"}

\* a in b for two str
IsSubstring(a, b) ==
    \E p \in 0..(Len(b) - Len(a)) : SubSeq(b, p + 1, p + Len(a)) = a

-----------------------------------------------------------------------------
(* read_text *)

read_text(text_loc) ==
    [body_text |-> [i \in DOMAIN text_loc.lines |-> strip(text_loc.lines[i])],
     work_id   |-> text_loc.stem]

-----------------------------------------------------------------------------
(* tag_exact *)

\* the value of re.IGNORECASE, which tag_exact passes to finditer as its
\* second positional argument: Pattern.finditer(string, pos)
IGNORECASE == 2

isinstance_list(t) == t.list

\* re.compile: a list gives \b(f1|f2|...)\b, a string is the pattern itself.
\* Surface forms and patterns are literal text (no regex metacharacters).
compile(t) ==
    IF isinstance_list(t)
    THEN [alts |-> t.value, bounded |-> TRUE]
    ELSE [alts |-> <<t.value>>, bounded |-> FALSE]

\* \b at offset p of s (between the characters s[p] and s[p+1], 1-based)
WordBoundary(s, p) ==
    LET before == p >= 1 /\ IsWord(s[p])
        after  == p < Len(s) /\ IsWord(s[p + 1])
    IN  before # after

\* alternative a of the pattern matches s at offset p
AltMatchesAt(pattern, a, s, p) ==
    /\ p + Len(a) <= Len(s)
    /\ SubSeq(s, p + 1, p + Len(a)) = a
    /\ pattern.bounded => WordBoundary(s, p) /\ WordBoundary(s, p + Len(a))

RECURSIVE finditer(_, _, _)
\* [m.group() for m in pattern.finditer(s, pos)]: leftmost matches, the first
\* alternative that matches wins, the scan resumes at the end of a match
finditer(pattern, s, pos) ==
    IF pos > Len(s) THEN <<>>
    ELSE LET hits == {i \in DOMAIN pattern.alts :
                         AltMatchesAt(pattern, pattern.alts[i], s, pos)}
         IN  IF hits = {} THEN finditer(pattern, s, pos + 1)
             ELSE LET a == pattern.alts[CHOOSE i \in hits : \A j \in hits : i <= j]
                  IN  <<a>> \o finditer(pattern, s, pos + Len(a))

\* body_text.index(sentence): 0-based position of the first equal element
index(list, x) == (CHOOSE i \in DOMAIN list :
                      list[i] = x /\ \A j \in DOMAIN list : list[j] = x => i <= j) - 1

\* the three lists tag_exact builds in its loop over body_text
tag_exact_lists(all_topics, text) ==
    LET found(i) == finditer(all_topics, text[i], IGNORECASE)
    IN  [tag        |-> Flatten([i \in DOMAIN text |-> found(i)]),
         snippet    |-> Flatten([i \in DOMAIN text |->
                                    Repeat(text[i], Len(found(i)))]),
         section_id |-> Flatten([i \in DOMAIN text |->
                                    Repeat(index(text, text[i]) + 1, Len(found(i)))])]

tag_exact(t, wid, text) ==
    LET lists == tag_exact_lists(compile(t), text)
    IN  [work_id    |-> wid,
         section_id |-> lists.section_id,
         tag        |-> lists.tag,
         score      |-> None,
         snippet    |-> lists.snippet,
         tagger     |-> "exact",
         strength   |-> "exact"]

-----------------------------------------------------------------------------
(* get_fuzzy_matches_at_threshold *)

\* __main__: fuzzy_thresholds={"strong": [87.5, 100], "weak": [80, 87.5]},
\* in tenths of a point
fuzzy_thresholds == [strong |-> <<875, 1000>>, weak |-> <<800, 875>>]

RECURSIVE lcs_row(_, _, _, _)
\* one row of the longest-common-subsequence table: prev is the row above,
\* c the character of this row, acc the columns 0..Len(acc)-1 already filled
lcs_row(prev, c, b, acc) ==
    IF Len(acc) = Len(b) + 1 THEN acc
    ELSE LET j == Len(acc)
         IN  lcs_row(prev, c, b,
                     Append(acc, IF c = b[j] THEN prev[j] + 1
                                 ELSE Max(prev[j + 1], acc[j])))

RECURSIVE lcs_rows(_, _, _, _)
lcs_rows(a, b, i, row) ==
    IF i > Len(a) THEN row[Len(b) + 1]
    ELSE lcs_rows(a, b, i + 1, lcs_row(row, a[i], b, <<0>>))

\* length of the longest common subsequence of a and b
lcs(a, b) == lcs_rows(a, b, 1, Repeat(0, Len(b) + 1))

\* rapidfuzz fuzz.ratio: the normalized Indel similarity,
\* 100 * (1 - (len(a) + len(b) - 2 * lcs) / (len(a) + len(b)))
ratio(a, b) ==
    IF Len(a) + Len(b) = 0 THEN [num |-> 100, den |-> 1]
    ELSE [num |-> 200 * lcs(a, b), den |-> Len(a) + Len(b)]

ScoreLe(x, y) == x.num * y.den <= y.num * x.den

\* the alignments rapidfuzz tries for a needle of length n in a longer string:
\* the prefixes shorter than n, every window of length n, the shorter suffixes
windows(n, long) ==
    LET m == Len(long)
    IN  {SubSeq(long, 1, i) : i \in 1..(n - 1)}
        \cup {SubSeq(long, i + 1, i + n) : i \in 0..(m - n)}
        \cup {SubSeq(long, i + 1, m) : i \in (m - n + 1)..(m - 1)}

\* best fuzz.ratio of the needle against an alignment in the longer string
partial_ratio_impl(needle, long) ==
    LET scores == {ratio(needle, w) : w \in windows(Len(needle), long)}
    IN  CHOOSE x \in scores : \A y \in scores : ScoreLe(y, x)

\* rapidfuzz fuzz.partial_ratio, the scorer handed to process.cdist
partial_ratio(s1, s2) ==
    IF s1 = <<>> \/ s2 = <<>>
    THEN [num |-> IF s1 = s2 THEN 100 ELSE 0, den |-> 1]
    ELSE IF Len(s1) < Len(s2) THEN partial_ratio_impl(s1, s2)
    ELSE IF Len(s2) < Len(s1) THEN partial_ratio_impl(s2, s1)
    ELSE LET x == partial_ratio_impl(s1, s2)
             y == partial_ratio_impl(s2, s1)
         IN  IF ScoreLe(y, x) THEN x ELSE y

\* topic if isinstance(topic, list) else [topic]
topic_list_of(t) == IF isinstance_list(t) THEN t.value ELSE <<t.value>>

\* process.cdist(body_text_lc, topic_list, scorer=fuzz.partial_ratio): the
\* sentences are lower-cased, the surface forms are taken as they are.  The
\* matrix holds float32 values; 80, 87.5 and 100 are float32 numbers and no
\* other score of strings this short is within rounding distance of them, so
\* the band test on the exact rational decides as the test on the matrix does.
match_results(text, topic_list) ==
    [i \in DOMAIN text |->
        [j \in DOMAIN topic_list |-> partial_ratio(lower(text[i]), topic_list[j])]]

\* in_band with the lower end of the band closed (>= for >)
in_band_closed(score, lower_threshold, upper_threshold) ==
    /\ score.num * 10 <= upper_threshold * score.den
    /\ score.num * 10 >= lower_threshold * score.den

\* (match_results <= upper_threshold) & (match_results > lower_threshold)
in_band(score, lower_threshold, upper_threshold) ==
    /\ score.num * 10 <= upper_threshold * score.den
    /\ score.num * 10 > lower_threshold * score.den

\* np.where(...): the (row, column) pairs of the selected cells, row-major
np_where(text, topic_list, lower_threshold, upper_threshold) ==
    LET scores == match_results(text, topic_list)
        cells  == Flatten([i \in DOMAIN text |->
                              [j \in DOMAIN topic_list |-> <<i, j>>]])
    IN  SelectSeq(cells, LAMBDA c :
            in_band(scores[c[1]][c[2]], lower_threshold, upper_threshold))

\* get_fuzzy_matches_at_threshold without the final "add 1 to every index"
get_fuzzy_matches_zero_based(text, t, lower_threshold, upper_threshold) ==
    LET topic_list == topic_list_of(t)
        where == np_where(text, topic_list, lower_threshold, upper_threshold)
    IN  [tag_list        |-> [k \in DOMAIN where |-> topic_list[where[k][2]]],
         snippet_list    |-> [k \in DOMAIN where |-> text[where[k][1]]],
         section_id_list |-> [k \in DOMAIN where |-> where[k][1] - 1]]

get_fuzzy_matches_at_threshold(text, t, lower_threshold, upper_threshold) ==
    LET topic_list == topic_list_of(t)
        where == np_where(text, topic_list, lower_threshold, upper_threshold)
    IN  [tag_list        |-> [k \in DOMAIN where |-> topic_list[where[k][2]]],
         snippet_list    |-> [k \in DOMAIN where |-> text[where[k][1]]],
         section_id_list |-> [k \in DOMAIN where |-> where[k][1]]]

-----------------------------------------------------------------------------
(* create_control_tags, tag_redundant_matches, tag_fuzzy *)

\* value of a local variable that was never assigned
Unbound == "Unbound"

\* d.get(key)
dict_get(d, key) == IF key \in DOMAIN d THEN d[key] ELSE <<None>>

\* truth value of a dict or list: empty is false
truthy(d) == DOMAIN d # {}

create_control_tags(found_exact_match, exact, strong_fuzzy, wid, strength) ==
    IF strength = "strong"
    THEN [found_control_match |-> found_exact_match, control_tags |-> exact]
    ELSE LET \* (strong_fuzzy_tags.get("matches") if strong_fuzzy_tags else False) != []
             \* where False != [] is True
             found_strong_fuzzy_match ==
                 IF truthy(strong_fuzzy)
                 THEN dict_get(strong_fuzzy, "matches") # <<>>
                 ELSE TRUE
         IN  [found_control_match |->
                  found_exact_match \/ found_strong_fuzzy_match,
              control_tags |->
                  IF found_exact_match /\ ~found_strong_fuzzy_match
                      THEN exact
                  ELSE IF found_strong_fuzzy_match /\ ~found_exact_match
                      THEN strong_fuzzy
                  ELSE IF found_strong_fuzzy_match /\ truthy(exact)
                      THEN [work_id    |-> wid,
                            tag        |-> dict_get(exact, "tag")
                                           \o dict_get(strong_fuzzy, "tag"),
                            tagger     |-> "mixed",
                            section_id |-> dict_get(exact, "section_id")
                                           \o dict_get(strong_fuzzy, "section_id"),
                            snippet    |-> dict_get(exact, "snippet")
                                           \o dict_get(strong_fuzzy, "snippet"),
                            strength   |-> "mixed"]
                  ELSE Unbound]

\* the position flag_for_zeroshot[comparison_tags.index(compare)] = True
\* writes for the element at position i: that of the first equal element
FlaggedIndex(comparison_tags, i) == index(comparison_tags, comparison_tags[i]) + 1

tag_redundant_matches(control_tags, comparison_tags, found_control_match) ==
    IF comparison_tags # <<>> /\ found_control_match
    THEN LET control_matches == dict_get(control_tags, "tag")
             hit == {FlaggedIndex(comparison_tags, i) :
                        i \in {k \in DOMAIN comparison_tags :
                                  \E c \in DOMAIN control_matches :
                                      IsSubstring(control_matches[c],
                                                  comparison_tags[k])}}
         IN  [i \in DOMAIN comparison_tags |-> i \in hit]
    ELSE Repeat(FALSE, Len(comparison_tags))

\* override_flags whose weak override writes [True] instead of
\* [True] * len(tag_list)
override_flags_single(flags, tag_list, found_exact_match, strength) ==
    IF tag_list = <<>> /\ ~found_exact_match /\ strength = "strong"
        THEN <<TRUE>>
    ELSE IF strength = "weak" /\ tag_list # <<>>
        THEN <<TRUE>>
    ELSE flags

\* override_flags with the strong override alone: the weak tier keeps the
\* flags of tag_redundant_matches
override_flags_strong_only(flags, tag_list, found_exact_match, strength) ==
    IF tag_list = <<>> /\ ~found_exact_match /\ strength = "strong"
        THEN <<TRUE>>
    ELSE flags

\* the flag list after the two overrides at the end of tag_fuzzy
override_flags(flags, tag_list, found_exact_match, strength) ==
    IF tag_list = <<>> /\ ~found_exact_match /\ strength = "strong"
        THEN <<TRUE>>
    ELSE IF strength = "weak" /\ tag_list # <<>>
        THEN Repeat(TRUE, Len(tag_list))
    ELSE flags

\* tag_fuzzy: the returned tag_dict and the locals the flags are computed from
tag_fuzzy_locals(wid, text, exact, strong_fuzzy, strength, t, thresholds) ==
    LET found_exact_match == dict_get(exact, "tag") # <<>>
        m == get_fuzzy_matches_at_threshold(
                 text, t, thresholds[strength][1], thresholds[strength][2])
        c == create_control_tags(found_exact_match, exact, strong_fuzzy,
                                 wid, strength)
        r == tag_redundant_matches(c.control_tags, m.tag_list,
                                   c.found_control_match)
    IN  [control   |-> c,
         redundant |-> r,
         flag_for_zeroshot |->
             override_flags(r, m.tag_list, found_exact_match, strength),
         tag_dict  |-> [work_id    |-> wid,
                        section_id |-> m.section_id_list,
                        tag        |-> m.tag_list,
                        score      |-> None,
                        snippet    |-> m.snippet_list,
                        tagger     |-> "fuzzy",
                        strength   |-> strength]]

tag_fuzzy(wid, text, exact, strong_fuzzy, strength, t, thresholds) ==
    tag_fuzzy_locals(wid, text, exact, strong_fuzzy, strength, t, thresholds).tag_dict

-----------------------------------------------------------------------------
(* clean_rb_tags *)

\* DataFrame.explode(["section_id", "tag", "snippet"]) of one record: one row
\* per list element, and one row of missing values for empty lists
explode_record(d) ==
    IF d.tag = <<>>
    THEN <<[d EXCEPT !.section_id = NaNSection, !.tag = NaN, !.snippet = NaN]>>
    ELSE [k \in DOMAIN d.tag |->
             [d EXCEPT !.section_id = d.section_id[k],
                       !.tag = d.tag[k],
                       !.snippet = d.snippet[k]]]

\* pd.DataFrame(tags).explode(["section_id", "tag", "snippet"])
explode(tags) == Flatten([i \in DOMAIN tags |-> explode_record(tags[i])])

\* tags_df.loc[tags_df["tag"].notna()]
notna(df) == SelectSeq(df, LAMBDA row : row.tag # NaN)

\* the nested np.where that assigns rel_strength
rel_strength(strength) ==
    IF strength = "exact" THEN 1
    ELSE IF strength = "strong" THEN 2
    ELSE IF strength = "weak" THEN 3
    ELSE 4

\* the groupby key of a row
key_of(row) == <<row.work_id, row.section_id, row.tag>>

\* drop_duplicates(keep=False): a row that occurs twice is dropped altogether
drop_all_duplicates(df) ==
    SelectSeq(df, LAMBDA row : Cardinality({i \in DOMAIN df : df[i] = row}) = 1)

RECURSIVE drop_duplicates(_)
\* DataFrame.drop_duplicates(): the first of every set of equal rows is kept
drop_duplicates(df) ==
    IF df = <<>> THEN <<>>
    ELSE LET rest == drop_duplicates(SubSeq(df, 1, Len(df) - 1))
             last == df[Len(df)]
         IN  IF \E i \in 1..(Len(df) - 1) : df[i] = last
             THEN rest ELSE Append(rest, last)

\* groupby(["work_id", "section_id", "tag"]).min("rel_strength") of key k: the
\* string lands in numeric_only, so only rel_strength is aggregated
group_min(df, k) ==
    LET ranks == {rel_strength(df[i].strength) :
                     i \in {j \in DOMAIN df : key_of(df[j]) = k}}
    IN  CHOOSE r \in ranks : \A q \in ranks : r <= q

\* merge_min joined on the key columns alone: every row of a key comes back
merge_on_key(df) ==
    LET keys == drop_duplicates([i \in DOMAIN df |-> key_of(df[i])])
    IN  Flatten([g \in DOMAIN keys |->
            SelectSeq(df, LAMBDA row : key_of(row) = keys[g])])

\* merge_min with the rank compared the wrong way round: the rows of a key
\* that are not of its minimum rank come back
merge_above_min(df) ==
    LET keys == drop_duplicates([i \in DOMAIN df |-> key_of(df[i])])
    IN  Flatten([g \in DOMAIN keys |->
            SelectSeq(df, LAMBDA row :
                /\ key_of(row) = keys[g]
                /\ rel_strength(row.strength) # group_min(df, keys[g]))])

\* shrink.merge(tags_df, how="left"): joined on work_id, section_id, tag and
\* rel_strength, the columns the two frames share
merge_min(df) ==
    LET keys == drop_duplicates([i \in DOMAIN df |-> key_of(df[i])])
    IN  Flatten([g \in DOMAIN keys |->
            SelectSeq(df, LAMBDA row :
                /\ key_of(row) = keys[g]
                /\ rel_strength(row.strength) = group_min(df, keys[g]))])

\* tags_df["model"] = "rule_based"
with_model(row) ==
    [work_id |-> row.work_id, section_id |-> row.section_id, tag |-> row.tag,
     score |-> row.score, snippet |-> row.snippet, tagger |-> row.tagger,
     strength |-> row.strength, model |-> "rule_based"]

clean_rb_tags(tags) ==
    LET merged == merge_min(notna(explode(tags)))
    IN  drop_duplicates([i \in DOMAIN merged |-> with_model(merged[i])])

\* clean_rb_tags called with a DataFrame of scalar cells: pd.DataFrame(df) is
\* the frame, explode gives every row back as it is (a string is a scalar to
\* explode), and the model column is written again
clean_rb_tags_frame(df) ==
    LET merged == merge_min(notna(df))
    IN  drop_duplicates([i \in DOMAIN merged |-> with_model(merged[i])])

-----------------------------------------------------------------------------
(* The texts of the explored runs, as character sequences. *)

\* "zz ab"
ZZAB == <<"z","z"," ","a","b">>
\* "ab ab"
ABAB == <<"a","b"," ","a","b">>
\* "zz Ab"
ZZCAP == <<"z","z"," ","A","b">>
\* "zz x ab"
ZZXAB == <<"z","z"," ","x"," ","a","b">>
\* "zzz"
ZZZ == <<"z","z","z">>
\* "ab"
FAB == <<"a","b">>
\* "Ab"
FCAP == <<"A","b">>
\* "x ab"
FXAB == <<"x"," ","a","b">>
\* "Census Data"
CensusData == <<"C","e","n","s","u","s"," ","D","a","t","a">>
\* the document W1 of the end-to-end scenario
W1 == <<<<"W","e"," ","u","s","e","d"," ","C","e","n","s","u","s"," ","D","a","t","a"," ","f","r","o","m"," ","2","0","2","0",".">>,
        <<"N","o"," ","t","o","p","i","c"," ","m","e","n","t","i","o","n","e","d"," ","h","e","r","e",".">>,
        <<"C","e","n","s","u","s"," ","D","a","t","a"," ","w","a","s"," ","c","i","t","e","d"," ","a","g","a","i","n",".">>>>
\* "abcdefgh"
ABCDEFGH == <<"a","b","c","d","e","f","g","h">>
\* "abcxefgh"
ABCXEFGH == <<"a","b","c","x","e","f","g","h">>
\* "abx"
ABX == <<"a","b","x">>

-----------------------------------------------------------------------------
(* analysis_of_all_tag_metadata, analysis_of_tag_redundancy *)

\* the order in which groupby("strength") lists the groups
StrengthOrder == <<"exact", "mixed", "strong", "weak">>

\* df.groupby("strength").size().reset_index(name='count')
size_by_strength(df) ==
    LET present == SelectSeq(StrengthOrder, LAMBDA st :
                       \E i \in DOMAIN df : df[i].strength = st)
    IN  [g \in DOMAIN present |->
            [strength |-> present[g],
             count    |-> Cardinality({i \in DOMAIN df :
                                          df[i].strength = present[g]})]]

analysis_of_all_tag_metadata(dirty) ==
    [total_mentions_found       |-> Len(dirty),
     total_mentions_by_strength |-> size_by_strength(dirty)]

\* pd.DataFrame raises when the three columns differ in length
ValueError == "ValueError"

\* (1 - deduplicated / all) * 100, as the exact rational
percentage_lost(all, deduplicated) ==
    [num |-> 100 * (all - deduplicated), den |-> all]

analysis_of_tag_redundancy(clean, total_mentions_found, total_mentions_by_strength) ==
    LET total_tags == Len(clean)
        dedupe_mentions_by_strength == size_by_strength(clean)
        level == <<"all">> \o [g \in DOMAIN total_mentions_by_strength |->
                                  total_mentions_by_strength[g].strength]
        all   == <<total_mentions_found>>
                 \o [g \in DOMAIN total_mentions_by_strength |->
                        total_mentions_by_strength[g].count]
        deduplicated == <<total_tags>>
                 \o [g \in DOMAIN dedupe_mentions_by_strength |->
                        dedupe_mentions_by_strength[g].count]
    IN  IF Len(deduplicated) # Len(level)
        THEN [raised |-> ValueError, compare_counts |-> <<>>]
        ELSE [raised |-> None,
              compare_counts |->
                  [g \in DOMAIN level |->
                      [level           |-> level[g],
                       all             |-> all[g],
                       deduplicated    |-> deduplicated[g],
                       percentage_lost |->
                           percentage_lost(all[g], deduplicated[g])]]]

-----------------------------------------------------------------------------
(* The runs of main that are explored. *)

\* sentences of the generic documents
Sentences == {ZZAB, ABAB, ZZCAP, ZZXAB, ZZZ}

\* surface forms of the generic topics
Forms == {FAB, FCAP, FXAB}

RECURSIVE SeqsUpTo(_, _)
\* the sequences over S of length 0..n
SeqsUpTo(S, n) ==
    IF n = 0 THEN {<<>>}
    ELSE LET shorter == SeqsUpTo(S, n - 1)
         IN  shorter \cup {Append(q, x) : q \in shorter, x \in S}

\* a text file: its stem and its raw lines, each ended by a newline
text_file(stem, sentences) ==
    [stem |-> stem, lines |-> [i \in DOMAIN sentences |-> sentences[i] \o <<"\n">>]]

\* an entry of the directory that is no readable text file (a subdirectory, a
\* file that is not text): open or readlines raises on it
unreadable_file(stem) == [stem |-> stem, lines |-> <<>>, raises |-> "OSError"]

\* with open(text_loc, "r") as file: file.readlines() raises
open_raises(text_loc) == "raises" \in DOMAIN text_loc

list_topic(forms) == [list |-> TRUE, value |-> forms]
str_topic(pattern) == [list |-> FALSE, value |-> pattern]

\* one file of up to MaxSentences sentences, a list of up to MaxForms surface
\* forms or a single pattern string
GenericRuns ==
    {[files |-> <<text_file("W1", d)>>, topic |-> t] :
        d \in SeqsUpTo(Sentences, MaxSentences),
        t \in {list_topic(f) : f \in SeqsUpTo(Forms, MaxForms) \ {<<>>}}
              \cup {str_topic(f) : f \in Forms}}

\* the end-to-end scenario: document W1, topic ["Census Data"]
W1Run == [files |-> <<text_file("W1", W1)>>, topic |-> list_topic(<<CensusData>>)]

\* a document whose sentences score exactly 87.5, 100 and 80 against the topic
BandRun == [files |-> <<text_file("W2", <<ABCXEFGH, ABCDEFGH, ABX>>)>>,
            topic |-> list_topic(<<ABCDEFGH>>)]

\* a directory of two files
TwoFileRun == [files |-> <<text_file("W1", <<ZZAB, ZZXAB>>),
                           text_file("W2", <<ZZAB, ZZAB>>)>>,
               topic |-> list_topic(<<FAB, FXAB>>)]

\* two files of one stem: W1.txt and W1.md
text_file_with_suffix(stem, suffix, sentences) ==
    [stem |-> stem, suffix |-> suffix,
     lines |-> [i \in DOMAIN sentences |-> sentences[i] \o <<"\n">>]]

\* the files of the generic directories: three names, four documents
CorpusFiles ==
    {text_file_with_suffix(n[1], n[2], d) :
        n \in {<<"W1", ".txt">>, <<"W1", ".md">>, <<"W2", ".txt">>},
        d \in {<<>>, <<ZZAB>>, <<ZZCAP>>, <<ZZXAB, ZZAB>>}}

\* a directory lists every name once
DistinctNames(files) ==
    \A i, j \in DOMAIN files :
        (files[i].stem = files[j].stem /\ files[i].suffix = files[j].suffix)
            => i = j

\* directories of 1..MaxFiles files
CorpusRuns ==
    {[files |-> fs, topic |-> t] :
        fs \in {q \in SeqsUpTo(CorpusFiles, MaxFiles) :
                   q # <<>> /\ DistinctNames(q)},
        t \in {list_topic(<<FAB>>), list_topic(<<FAB, FXAB>>)}}

\* directories with an entry that cannot be read
RaisingRuns ==
    {[files |-> <<unreadable_file("W1"), text_file("W2", <<ZZAB>>)>>,
      topic |-> list_topic(<<FAB>>)],
     [files |-> <<text_file("W1", <<ZZAB>>), unreadable_file("W2"),
                  text_file("W3", <<ZZXAB>>)>>,
      topic |-> list_topic(<<FAB>>)]}

Runs == GenericRuns \cup {W1Run, BandRun, TwoFileRun} \cup CorpusRuns
            \cup RaisingRuns

-----------------------------------------------------------------------------
(* main *)

Init ==
    /\ \E run \in Runs :
        /\ text_path = run.files
        /\ all_text_files = run.files
        /\ topic = run.topic
    /\ pc = "loop"
    /\ work_id = Unbound
    /\ body_text = Unbound
    /\ exact_tags = Unbound
    /\ strong_fuzzy_tags = Unbound
    /\ weak_fuzzy_tags = Unbound
    /\ control = [strong |-> Unbound, weak |-> Unbound]
    /\ redundant = [strong |-> Unbound, weak |-> Unbound]
    /\ flag_for_zeroshot = [strong |-> Unbound, weak |-> Unbound]
    /\ tags_df = Unbound
    /\ dirty_tags_df = <<>>
    /\ clean_tags_df = <<>>
    /\ comparison_df = Unbound

\* for file in all_text_files: body_text, work_id = read_text(text_path / file)
ReadText ==
    /\ pc = "loop"
    /\ all_text_files # <<>>
    /\ ~open_raises(Head(all_text_files))
    /\ LET r == read_text(Head(all_text_files))
       IN  /\ body_text' = r.body_text
           /\ work_id' = r.work_id
    /\ all_text_files' = Tail(all_text_files)
    /\ pc' = "exact"
    /\ UNCHANGED <<text_path, topic, exact_tags, strong_fuzzy_tags, weak_fuzzy_tags, control,
                   redundant, flag_for_zeroshot, tags_df, dirty_tags_df,
                   clean_tags_df, comparison_df>>

\* read_text raises on an entry that open or readlines cannot read; nothing in
\* main catches the exception, so main ends there
ReadTextRaises ==
    /\ pc = "loop"
    /\ all_text_files # <<>>
    /\ open_raises(Head(all_text_files))
    /\ all_text_files' = Tail(all_text_files)
    /\ pc' = "raised"
    /\ UNCHANGED <<text_path, topic, work_id, body_text, exact_tags,
                   strong_fuzzy_tags, weak_fuzzy_tags, control, redundant,
                   flag_for_zeroshot, tags_df, dirty_tags_df, clean_tags_df,
                   comparison_df>>

\* exact_tags = tag_exact(topic, work_id, body_text)
TagExact ==
    /\ pc = "exact"
    /\ exact_tags' = tag_exact(topic, work_id, body_text)
    /\ pc' = "strong"
    /\ UNCHANGED <<text_path, all_text_files, topic, work_id, body_text, strong_fuzzy_tags,
                   weak_fuzzy_tags, control, redundant, flag_for_zeroshot,
                   tags_df, dirty_tags_df, clean_tags_df, comparison_df>>

\* strong_fuzzy_tags = tag_fuzzy(work_id, body_text, exact_tags, [], "strong", ...)
TagFuzzyStrong ==
    /\ pc = "strong"
    /\ LET l == tag_fuzzy_locals(work_id, body_text, exact_tags, <<>>, "strong",
                                 topic, fuzzy_thresholds)
       IN  /\ strong_fuzzy_tags' =
                  tag_fuzzy(work_id, body_text, exact_tags, <<>>, "strong",
                            topic, fuzzy_thresholds)
           /\ control' = [control EXCEPT !.strong = l.control]
           /\ redundant' = [redundant EXCEPT !.strong = l.redundant]
           /\ flag_for_zeroshot' =
                  [flag_for_zeroshot EXCEPT !.strong = l.flag_for_zeroshot]
    /\ pc' = "weak"
    /\ UNCHANGED <<text_path, all_text_files, topic, work_id, body_text, exact_tags,
                   weak_fuzzy_tags, tags_df, dirty_tags_df, clean_tags_df,
                   comparison_df>>

\* weak_fuzzy_tags = tag_fuzzy(work_id, body_text, exact_tags, strong_fuzzy_tags,
\*                             "weak", ...)
TagFuzzyWeak ==
    /\ pc = "weak"
    /\ LET l == tag_fuzzy_locals(work_id, body_text, exact_tags, strong_fuzzy_tags,
                                 "weak", topic, fuzzy_thresholds)
       IN  /\ weak_fuzzy_tags' =
                  tag_fuzzy(work_id, body_text, exact_tags, strong_fuzzy_tags,
                            "weak", topic, fuzzy_thresholds)
           /\ control' = [control EXCEPT !.weak = l.control]
           /\ redundant' = [redundant EXCEPT !.weak = l.redundant]
           /\ flag_for_zeroshot' =
                  [flag_for_zeroshot EXCEPT !.weak = l.flag_for_zeroshot]
    /\ pc' = "clean"
    /\ UNCHANGED <<text_path, all_text_files, topic, work_id, body_text, exact_tags,
                   strong_fuzzy_tags, tags_df, dirty_tags_df, clean_tags_df,
                   comparison_df>>

\* CleanTags with clean_tags_df = tags_df in place of the pd.concat: the clean
\* table is the table of the file visited last
CleanTagsOverwrite ==
    /\ pc = "clean"
    /\ LET tags == <<exact_tags, strong_fuzzy_tags, weak_fuzzy_tags>>
       IN  /\ dirty_tags_df' = dirty_tags_df \o explode(tags)
           /\ tags_df' = clean_rb_tags(tags)
           /\ clean_tags_df' = clean_rb_tags(tags)
    /\ pc' = "loop"
    /\ UNCHANGED <<text_path, all_text_files, topic, work_id, body_text,
                   exact_tags, strong_fuzzy_tags, weak_fuzzy_tags, control,
                   redundant, flag_for_zeroshot, comparison_df>>

\* tags.extend([...]); dirty_tags_df = pd.concat([...]);
\* tags_df = clean_rb_tags(tags); clean_tags_df = pd.concat([...])
CleanTags ==
    /\ pc = "clean"
    /\ LET tags == <<exact_tags, strong_fuzzy_tags, weak_fuzzy_tags>>
       IN  /\ dirty_tags_df' = dirty_tags_df \o explode(tags)
           /\ tags_df' = clean_rb_tags(tags)
           /\ clean_tags_df' = clean_tags_df \o clean_rb_tags(tags)
    /\ pc' = "loop"
    /\ UNCHANGED <<text_path, all_text_files, topic, work_id, body_text, exact_tags,
                   strong_fuzzy_tags, weak_fuzzy_tags, control, redundant,
                   flag_for_zeroshot, comparison_df>>

\* after the loop: the two analysis calls of main
Analysis ==
    /\ pc = "loop"
    /\ all_text_files = <<>>
    /\ LET a == analysis_of_all_tag_metadata(dirty_tags_df)
       IN  comparison_df' =
               analysis_of_tag_redundancy(clean_tags_df, a.total_mentions_found,
                                          a.total_mentions_by_strength)
    /\ pc' = "done"
    /\ UNCHANGED <<text_path, all_text_files, topic, work_id, body_text, exact_tags,
                   strong_fuzzy_tags, weak_fuzzy_tags, control, redundant,
                   flag_for_zeroshot, tags_df, dirty_tags_df, clean_tags_df>>

Next ==
    \/ ReadText
    \/ ReadTextRaises
    \/ TagExact
    \/ TagFuzzyStrong
    \/ TagFuzzyWeak
    \/ CleanTags
    \/ Analysis

Spec == Init /\ [][Next]_vars

-----------------------------------------------------------------------------
(* clean_rb_tags on tier records of any content: main stands at the call of *)
(* clean_rb_tags with three records that no matcher need have produced.     *)

\* the document the records point into, and the file still to visit
CleanDoc == <<ZZAB, ZZXAB>>
CleanRest == <<text_file("W2", <<ZZAB>>)>>
CleanRestRaises == <<unreadable_file("W2")>>

\* the matches a record may list: any sentence of the document, either tag
CleanMatches == {[section_id |-> n, tag |-> t] :
                    n \in DOMAIN CleanDoc, t \in {FAB, FXAB}}

\* a tier record of the given strength listing the matches ms
tier_record(strength, ms) ==
    [work_id    |-> "W1",
     section_id |-> [k \in DOMAIN ms |-> ms[k].section_id],
     tag        |-> [k \in DOMAIN ms |-> ms[k].tag],
     score      |-> None,
     snippet    |-> [k \in DOMAIN ms |-> CleanDoc[ms[k].section_id]],
     tagger     |-> IF strength = "exact" THEN "exact" ELSE "fuzzy",
     strength   |-> strength]

\* the records of one strength with up to MaxRows matches
TierRecords(strength) ==
    {tier_record(strength, ms) : ms \in SeqsUpTo(CleanMatches, MaxRows)}

InitClean ==
    /\ all_text_files \in {CleanRest, CleanRestRaises}
    /\ text_path = <<text_file("W1", CleanDoc)>> \o all_text_files
    /\ topic = list_topic(<<FAB>>)
    /\ pc = "clean"
    /\ work_id = "W1"
    /\ body_text = CleanDoc
    /\ exact_tags \in TierRecords("exact") \cup TierRecords("weak")
    /\ strong_fuzzy_tags \in TierRecords("strong") \cup TierRecords("mixed")
    /\ weak_fuzzy_tags \in TierRecords("weak")
    /\ control = [strong |-> Unbound, weak |-> Unbound]
    /\ redundant = [strong |-> Unbound, weak |-> Unbound]
    /\ flag_for_zeroshot = [strong |-> Unbound, weak |-> Unbound]
    /\ tags_df = Unbound
    /\ dirty_tags_df = <<>>
    /\ clean_tags_df = <<>>
    /\ comparison_df = Unbound

SpecClean == InitClean /\ [][Next]_vars

-----------------------------------------------------------------------------
(* Positions of main at which the results of the current file are in place. *)

FileRead    == work_id # Unbound
AfterExact  == FileRead /\ pc # "exact"
AfterStrong == FileRead /\ pc \notin {"exact", "strong"}
AfterWeak   == FileRead /\ pc \notin {"exact", "strong", "weak"}
AfterClean  == FileRead /\ pc \in {"loop", "done"}

\* the tier records handed to clean_rb_tags for the current file
tier_records == <<exact_tags, strong_fuzzy_tags, weak_fuzzy_tags>>

\* number of candidates of a tag_dict at section_id i
CountAt(d, i) == Cardinality({k \in DOMAIN d.tag : d.section_id[k] = i})

\* the tags of the candidates of a tag_dict whose snippet is sentence s
TagsIn(d, s) ==
    LET ks == SelectSeq([k \in DOMAIN d.tag |-> k], LAMBDA k : d.snippet[k] = s)
    IN  [n \in DOMAIN ks |-> d.tag[ks[n]]]

\* tag_dict d holds a candidate with tag t at section_id i
Emits(d, t, i) ==
    \E k \in DOMAIN d.tag : d.tag[k] = t /\ d.section_id[k] = i

\* the score of sentence i against surface form j, as cdist computes it
ScoreOf(i, j) == partial_ratio(lower(body_text[i]), topic_list_of(topic)[j])

\* a score compared with a number of points given in tenths
ScoreEq(x, tenths) == x.num * 10 = tenths * x.den
ScoreGt(x, tenths) == x.num * 10 > tenths * x.den

-----------------------------------------------------------------------------
(* C1 *)

\* the run is the end-to-end scenario and main has finished
W1Finished ==
    /\ pc = "done"
    /\ topic = list_topic(<<CensusData>>)
    /\ body_text = W1

\* C1: for document W1 and topic ["Census Data"], main ends with a canonical
\* table of exactly 2 rows, at section_id 1 and 3, both with strength exact.
C1_EndToEndTwoExactRows ==
    W1Finished =>
        /\ Len(clean_tags_df) = 2
        /\ {clean_tags_df[r].section_id : r \in DOMAIN clean_tags_df} = {1, 3}
        /\ \A r \in DOMAIN clean_tags_df : clean_tags_df[r].strength = "exact"

-----------------------------------------------------------------------------
(* C2 *)

\* the rows clean_rb_tags starts from: one per match of the three tiers
InputRows == notna(explode(tier_records))

\* C2: every row of the output of clean_rb_tags has a tag, and its rank
\* (exact 1, strong 2, weak 3, mixed 4) is the least rank among the input rows
\* of its key (work_id, section_id, tag).
C2_OnlyMinimumRankSurvives ==
    AfterClean =>
        \A r \in DOMAIN tags_df :
            /\ tags_df[r].tag # NaN
            /\ \E i \in DOMAIN InputRows :
                /\ key_of(InputRows[i]) = key_of(tags_df[r])
                /\ InputRows[i].strength = tags_df[r].strength
            /\ \A i \in DOMAIN InputRows :
                key_of(InputRows[i]) = key_of(tags_df[r]) =>
                    \/ tags_df[r].strength = "exact"
                    \/ tags_df[r].strength = "strong"
                       /\ InputRows[i].strength # "exact"
                    \/ tags_df[r].strength = "weak"
                       /\ InputRows[i].strength \notin {"exact", "strong"}
                    \/ InputRows[i].strength \notin {"exact", "strong", "weak"}

\* a key found by the exact and by a fuzzy tier went through clean_rb_tags and
\* its exact row is in the output
C2_Witness ==
    /\ AfterClean
    /\ \E i, j \in DOMAIN InputRows :
        /\ key_of(InputRows[i]) = key_of(InputRows[j])
        /\ InputRows[i].strength = "exact"
        /\ InputRows[j].strength \in {"strong", "weak"}
        /\ \E r \in DOMAIN tags_df : key_of(tags_df[r]) = key_of(InputRows[i])

-----------------------------------------------------------------------------
(* C3 *)

\* C3: a (sentence, surface form) pair is emitted for a band exactly when
\* lower < score <= upper: by the strong pass when 87.5 < score <= 100, by the
\* weak pass when 80 < score <= 87.5; so a score of 87.5 is weak and not
\* strong, a score of 100 is strong, a score of 80 is in neither band, and no
\* pair is emitted by both passes.
C3_BandsHalfOpen ==
    AfterWeak =>
        \A i \in DOMAIN body_text : \A j \in DOMAIN topic_list_of(topic) :
            LET t == topic_list_of(topic)[j]
                x == ScoreOf(i, j)
                strong == Emits(strong_fuzzy_tags, t, i)
                weak == Emits(weak_fuzzy_tags, t, i)
            IN  /\ strong <=> (ScoreGt(x, 875) /\ ~ScoreGt(x, 1000))
                /\ weak <=> (ScoreGt(x, 800) /\ ~ScoreGt(x, 875))
                /\ ScoreEq(x, 875) => weak /\ ~strong
                /\ ScoreEq(x, 1000) => strong
                /\ ScoreEq(x, 800) => ~weak /\ ~strong
                /\ ~(strong /\ weak)

\* both passes ran over a document with a pair scoring exactly 87.5, one
\* scoring exactly 100 and one scoring exactly 80
C3_Witness ==
    /\ AfterWeak
    /\ \E i \in DOMAIN body_text : \E j \in DOMAIN topic_list_of(topic) :
        /\ ScoreEq(ScoreOf(i, j), 875)
        /\ Emits(weak_fuzzy_tags, topic_list_of(topic)[j], i)
    /\ \E i \in DOMAIN body_text : \E j \in DOMAIN topic_list_of(topic) :
        /\ ScoreEq(ScoreOf(i, j), 1000)
        /\ Emits(strong_fuzzy_tags, topic_list_of(topic)[j], i)
    /\ \E i \in DOMAIN body_text : \E j \in DOMAIN topic_list_of(topic) :
        ScoreEq(ScoreOf(i, j), 800)

-----------------------------------------------------------------------------
(* C4 *)

\* sentence s holds surface form t, in any letter casing, between two word
\* boundaries, at an offset the scan of finditer reaches
OccursAnyCase(t, s) ==
    \E p \in IGNORECASE..(Len(s) - Len(t)) :
        /\ lower(SubSeq(s, p + 1, p + Len(t))) = lower(t)
        /\ WordBoundary(s, p)
        /\ WordBoundary(s, p + Len(t))

\* C4: with a list topic, matching is case-insensitive: a sentence that holds
\* a surface form in any letter casing between word boundaries gets a
\* candidate from tag_exact.  (Stated for the occurrences the scan reaches,
\* which the claim includes.)
C4_ExactIgnoresCase ==
    (AfterExact /\ isinstance_list(topic)) =>
        \A i \in DOMAIN body_text : \A j \in DOMAIN topic.value :
            OccursAnyCase(topic.value[j], body_text[i]) =>
                \E k \in DOMAIN exact_tags.tag :
                    exact_tags.snippet[k] = body_text[i]

-----------------------------------------------------------------------------
(* C5 *)

\* the sentence text at position i occurs once in the document
OccursOnce(i) == \A j \in DOMAIN body_text : body_text[j] = body_text[i] => j = i

\* C5: tag_exact finds all non-overlapping matches of the pattern wherever
\* they start: a sentence with k matches, the first character included, gets
\* exactly k candidates, each with the matched text as tag and the sentence
\* as snippet.
C5_AllMatchesFromSentenceStart ==
    AfterExact =>
        \A i \in DOMAIN body_text :
            OccursOnce(i) =>
                TagsIn(exact_tags, body_text[i])
                    = finditer(compile(topic), body_text[i], 0)

-----------------------------------------------------------------------------
(* C6 *)

\* C6: every exact candidate carries the 1-based position of the sentence
\* occurrence it was found in: if the sentence at position i has k matches,
\* exactly k exact candidates carry section_id = i, also when the same
\* sentence text occurs at several positions.
C6_SectionIdIsOccurrencePosition ==
    AfterExact =>
        \A i \in DOMAIN body_text :
            CountAt(exact_tags, i)
                = Len(finditer(compile(topic), body_text[i], IGNORECASE))

-----------------------------------------------------------------------------
(* C7 *)

\* every candidate of tag_dict d points at a sentence of the document and
\* carries that sentence as snippet
ValidSections(d) ==
    \A k \in DOMAIN d.tag :
        /\ d.section_id[k] \in 1..Len(body_text)
        /\ d.snippet[k] = body_text[d.section_id[k]]

\* C7: every candidate of tag_exact and of either tag_fuzzy pass has
\* 1 <= section_id <= number of sentences, and its snippet is the sentence at
\* position section_id.
C7_SectionIdValid ==
    /\ AfterExact => ValidSections(exact_tags)
    /\ AfterStrong => ValidSections(strong_fuzzy_tags)
    /\ AfterWeak => ValidSections(weak_fuzzy_tags)

\* all three tiers found a candidate in a document of two sentences or more,
\* one of them beyond the first sentence
C7_Witness ==
    /\ AfterWeak
    /\ exact_tags.tag # <<>>
    /\ strong_fuzzy_tags.tag # <<>>
    /\ weak_fuzzy_tags.tag # <<>>
    /\ \E k \in DOMAIN weak_fuzzy_tags.tag : weak_fuzzy_tags.section_id[k] > 1
    /\ \E k \in DOMAIN exact_tags.tag : exact_tags.section_id[k] > 1

-----------------------------------------------------------------------------
(* C8 *)

\* C8: with a list topic, whatever tag_exact emits the strong pass emits too:
\* an exact candidate with tag t at section_id i has a strong candidate with
\* tag t at section_id i.
C8_ExactWithinStrongFuzzy ==
    (AfterStrong /\ isinstance_list(topic)) =>
        \A k \in DOMAIN exact_tags.tag :
            Emits(strong_fuzzy_tags, exact_tags.tag[k], exact_tags.section_id[k])

-----------------------------------------------------------------------------
(* C9 *)

\* flags is the substring test of every comparison tag against the control tags
FlagsAreSubstringTest(c, comparison_tags, flags) ==
    (c.found_control_match /\ dict_get(c.control_tags, "tag") # <<>>) =>
        \A i \in DOMAIN comparison_tags :
            flags[i] <=> \E n \in DOMAIN c.control_tags.tag :
                            IsSubstring(c.control_tags.tag[n], comparison_tags[i])

\* C9: with a non-empty control set, tag_redundant_matches flags position i of
\* the comparison list if and only if some control tag is a substring of
\* comparison_tags[i], also where the tag repeats an earlier position's tag.
C9_EveryRedundantPositionFlagged ==
    /\ AfterStrong =>
        FlagsAreSubstringTest(control.strong, strong_fuzzy_tags.tag,
                              redundant.strong)
    /\ AfterWeak =>
        FlagsAreSubstringTest(control.weak, weak_fuzzy_tags.tag, redundant.weak)

-----------------------------------------------------------------------------
(* C10 *)

\* C10: for both tiers the flag list at the end of tag_fuzzy is as long as the
\* tier's candidate list, a tier without candidates included.
C10_FlagsAlignedAlways ==
    /\ AfterStrong =>
        Len(flag_for_zeroshot.strong) = Len(strong_fuzzy_tags.tag)
    /\ AfterWeak =>
        Len(flag_for_zeroshot.weak) = Len(weak_fuzzy_tags.tag)

\* C10, amended: the flag list is as long as the tier's candidate list, except
\* in the strong tier of a document with no strong candidate and no exact
\* match, where it is the single synthetic [True].
C10_FlagsAlignedExceptSynthetic ==
    /\ AfterStrong =>
        IF strong_fuzzy_tags.tag = <<>> /\ exact_tags.tag = <<>>
        THEN flag_for_zeroshot.strong = <<TRUE>>
        ELSE Len(flag_for_zeroshot.strong) = Len(strong_fuzzy_tags.tag)
    /\ AfterWeak =>
        Len(flag_for_zeroshot.weak) = Len(weak_fuzzy_tags.tag)

\* a document whose strong tier got the synthetic flag and whose weak tier
\* has two candidates or more, each with its own flag
C10_Witness ==
    /\ AfterWeak
    /\ strong_fuzzy_tags.tag = <<>>
    /\ flag_for_zeroshot.strong = <<TRUE>>
    /\ Len(weak_fuzzy_tags.tag) >= 2
    /\ Len(flag_for_zeroshot.weak) = Len(weak_fuzzy_tags.tag)

-----------------------------------------------------------------------------
(* C11 *)

\* C11: when tag_fuzzy has resolved the weak tier and the weak candidate list
\* is not empty, the flag list has one entry per weak candidate and every
\* entry is True, whatever the exact and the strong candidates are.
C11_WeakFlagsAllTrue ==
    (AfterWeak /\ weak_fuzzy_tags.tag # <<>>) =>
        /\ DOMAIN flag_for_zeroshot.weak = DOMAIN weak_fuzzy_tags.tag
        /\ \A i \in DOMAIN flag_for_zeroshot.weak : flag_for_zeroshot.weak[i]

\* a document without exact and strong candidates whose weak candidates were
\* not all found redundant by tag_redundant_matches
C11_Witness ==
    /\ AfterWeak
    /\ exact_tags.tag = <<>>
    /\ strong_fuzzy_tags.tag = <<>>
    /\ weak_fuzzy_tags.tag # <<>>
    /\ \E i \in DOMAIN redundant.weak : ~redundant.weak[i]
    /\ \A i \in DOMAIN flag_for_zeroshot.weak : flag_for_zeroshot.weak[i]

\* a document with exact candidates whose weak flags were all raised although
\* tag_redundant_matches left one of them down
C11_WitnessWithExact ==
    /\ AfterWeak
    /\ exact_tags.tag # <<>>
    /\ weak_fuzzy_tags.tag # <<>>
    /\ \E i \in DOMAIN redundant.weak : ~redundant.weak[i]
    /\ \A i \in DOMAIN flag_for_zeroshot.weak : flag_for_zeroshot.weak[i]

-----------------------------------------------------------------------------
(* C12 *)

\* the two tables hold the same rows the same number of times
SameRows(a, b) ==
    \A r \in Range(a) \cup Range(b) :
        Cardinality({i \in DOMAIN a : a[i] = r})
            = Cardinality({i \in DOMAIN b : b[i] = r})

\* C12: clean_rb_tags applied to the table clean_rb_tags returned gives that
\* table back: the same rows, none lost and none added.
C12_CleanIdempotent ==
    AfterClean => SameRows(clean_rb_tags_frame(tags_df), tags_df)

\* the first pass dropped a row and kept two rows or more
C12_Witness ==
    /\ AfterClean
    /\ Len(tags_df) >= 2
    /\ Len(notna(explode(tier_records))) > Len(tags_df)
    /\ Len(clean_rb_tags_frame(tags_df)) >= 2

-----------------------------------------------------------------------------
(* What main computes for one file, as a function of the file. *)

\* the list tags of one pass of main's loop: the three tier records of a file
tags_of(file, t) ==
    LET r == read_text(file)
        exact == tag_exact(t, r.work_id, r.body_text)
        strong_fuzzy == tag_fuzzy(r.work_id, r.body_text, exact, <<>>, "strong",
                                  t, fuzzy_thresholds)
        weak_fuzzy == tag_fuzzy(r.work_id, r.body_text, exact, strong_fuzzy,
                                "weak", t, fuzzy_thresholds)
    IN  <<exact, strong_fuzzy, weak_fuzzy>>

RECURSIVE Sum(_)
Sum(s) == IF s = <<>> THEN 0 ELSE Head(s) + Sum(Tail(s))

\* position of a tier in the list tags
TierPosition == [exact |-> 1, strong |-> 2, weak |-> 3]

\* number of candidates of a tier over the files
Candidates(files, t, strength) ==
    Sum([i \in DOMAIN files |->
            Len(tags_of(files[i], t)[TierPosition[strength]].tag)])

\* the count of a tier in a groupby("strength").size() table, 0 if the tier
\* has no line
CountOf(by_strength, strength) ==
    Sum([g \in DOMAIN by_strength |->
            IF by_strength[g].strength = strength
            THEN by_strength[g].count ELSE 0])

-----------------------------------------------------------------------------
(* C13 *)

\* C13: at the end of main the raw counts count candidates only:
\* total_mentions_found is the number of candidates of all files and tiers,
\* the raw count of a tier is the number of candidates of that tier (0 for a
\* tier without candidates), and the 'all' column that percentage_lost is
\* computed from holds those counts.
C13_RawCountsCountCandidates ==
    pc = "done" =>
        LET a == analysis_of_all_tag_metadata(dirty_tags_df)
            n(strength) == Candidates(text_path, topic, strength)
        IN  /\ a.total_mentions_found = n("exact") + n("strong") + n("weak")
            /\ \A st \in {"exact", "strong", "weak"} :
                   CountOf(a.total_mentions_by_strength, st) = n(st)
            /\ comparison_df.raised = None =>
                   \A g \in DOMAIN comparison_df.compare_counts :
                       LET row == comparison_df.compare_counts[g]
                       IN  row.all = IF row.level = "all"
                                     THEN n("exact") + n("strong") + n("weak")
                                     ELSE n(row.level)

-----------------------------------------------------------------------------
(* C14 *)

\* main has come to rest: after the analysis, or on an exception
MainStopped == pc \in {"done", "raised"}

\* C14: a file that raises in read_text does not end the pass: when main has
\* come to rest on a directory with such a file, every file was visited and
\* the analysis was computed.
C14_FailureIsolated ==
    (MainStopped /\ \E i \in DOMAIN text_path : open_raises(text_path[i])) =>
        /\ pc = "done"
        /\ all_text_files = <<>>

-----------------------------------------------------------------------------
(* C15 *)

RECURSIVE main_loop(_, _)
\* the two tables main has accumulated after its loop over the files
main_loop(files, t) ==
    IF files = <<>> THEN [dirty_tags_df |-> <<>>, clean_tags_df |-> <<>>]
    ELSE LET before == main_loop(SubSeq(files, 1, Len(files) - 1), t)
             tags == tags_of(files[Len(files)], t)
         IN  [dirty_tags_df |-> before.dirty_tags_df \o explode(tags),
              clean_tags_df |-> before.clean_tags_df \o clean_rb_tags(tags)]

\* the orders in which n files can be listed
Orders(n) ==
    {p \in [1..n -> 1..n] : \A i, j \in 1..n : p[i] = p[j] => i = j}

Permuted(files, p) == [i \in DOMAIN files |-> files[p[i]]]

\* C15: whatever the order in which the directory lists its files, main ends
\* with the same rows in clean_tags_df (each the same number of times) and
\* with the same raw and deduplicated counts, in total and per tier.
C15_OrderIndependent ==
    pc = "done" =>
        \A p \in Orders(Len(text_path)) :
            LET other == main_loop(Permuted(text_path, p), topic)
            IN  /\ SameRows(other.clean_tags_df, clean_tags_df)
                /\ analysis_of_all_tag_metadata(other.dirty_tags_df)
                       = analysis_of_all_tag_metadata(dirty_tags_df)
                /\ Len(other.clean_tags_df) = Len(clean_tags_df)
                /\ size_by_strength(other.clean_tags_df)
                       = size_by_strength(clean_tags_df)

\* main has ended on two files or more whose clean rows come out in another
\* order when the files are listed in another order
C15_Witness ==
    /\ pc = "done"
    /\ Len(text_path) >= 2
    /\ \E i, j \in DOMAIN clean_tags_df :
           clean_tags_df[i].work_id # clean_tags_df[j].work_id
    /\ \E p \in Orders(Len(text_path)) :
           main_loop(Permuted(text_path, p), topic).clean_tags_df # clean_tags_df

-----------------------------------------------------------------------------
(* C16 *)

\* number of rows of a table that are of the given tier
RowsOf(df, strength) ==
    Cardinality({i \in DOMAIN df : df[i].strength = strength})

\* C16: analysis_of_tag_redundancy does not fail; its table has the line
\* 'all' and one line per tier of the raw table, and on the line of a tier
\* 'all' is the number of raw rows of that tier and 'deduplicated' the number
\* of clean rows of that same tier (0 when no row of the tier survived).
C16_ComparisonPairsSameTier ==
    pc = "done" =>
        LET raw == size_by_strength(dirty_tags_df)
        IN  /\ comparison_df.raised = None
            /\ [g \in DOMAIN comparison_df.compare_counts |->
                    comparison_df.compare_counts[g].level]
                   = <<"all">> \o [g \in DOMAIN raw |-> raw[g].strength]
            /\ \A g \in DOMAIN comparison_df.compare_counts :
                   LET row == comparison_df.compare_counts[g]
                   IN  IF row.level = "all"
                       THEN /\ row.all = Len(dirty_tags_df)
                            /\ row.deduplicated = Len(clean_tags_df)
                       ELSE /\ row.all = RowsOf(dirty_tags_df, row.level)
                            /\ row.deduplicated = RowsOf(clean_tags_df, row.level)

-----------------------------------------------------------------------------
(* C17 *)

\* C17: the control set create_control_tags resolved for the weak tier: with
\* exact and strong candidates the mixed aggregate, whose tag, section_id and
\* snippet lists are the exact lists followed by the strong lists; with exact
\* candidates alone the exact record; with strong candidates alone the strong
\* record; and found_control_match is true exactly when there is an exact or
\* a strong candidate.
C17_WeakControlSet ==
    AfterWeak =>
        LET found_exact == exact_tags.tag # <<>>
            found_strong == strong_fuzzy_tags.tag # <<>>
            c == control.weak
        IN  /\ c.found_control_match <=> (found_exact \/ found_strong)
            /\ (found_exact /\ found_strong) =>
                   /\ c.control_tags.strength = "mixed"
                   /\ c.control_tags.tag
                          = exact_tags.tag \o strong_fuzzy_tags.tag
                   /\ c.control_tags.section_id
                          = exact_tags.section_id \o strong_fuzzy_tags.section_id
                   /\ c.control_tags.snippet
                          = exact_tags.snippet \o strong_fuzzy_tags.snippet
            /\ (found_exact /\ ~found_strong) => c.control_tags = exact_tags
            /\ (found_strong /\ ~found_exact) =>
                   c.control_tags = strong_fuzzy_tags

-----------------------------------------------------------------------------
(* C18 *)

\* the tier records of all files of the directory in one list
AllTags == Flatten([i \in DOMAIN text_path |-> tags_of(text_path[i], topic)])

\* C18: the clean table main has accumulated file by file is the table of
\* one clean_rb_tags pass over the records of all files: the same rows, per
\* key (work_id, section_id, tag) only rows of the least rank the key has in
\* the directory, and no row twice.
C18_PerFileCleanIsCorpusClean ==
    pc = "done" =>
        /\ SameRows(clean_tags_df, clean_rb_tags(AllTags))
        /\ \A i \in DOMAIN clean_tags_df :
               rel_strength(clean_tags_df[i].strength)
                   = group_min(notna(dirty_tags_df), key_of(clean_tags_df[i]))
        /\ \A i, j \in DOMAIN clean_tags_df :
               clean_tags_df[i] = clean_tags_df[j] => i = j

-----------------------------------------------------------------------------
(* C19 *)

\* the columns clean_rb_tags takes over from its input
InputColumns ==
    {"work_id", "section_id", "tag", "score", "snippet", "tagger", "strength"}

\* C19: clean_rb_tags loses no mention location and invents no row: every
\* key (work_id, section_id, tag) of an input row with a tag has a row in
\* the output, and every output row is an input row (equal on work_id,
\* section_id, tag, snippet, tagger and strength) with the one added column
\* model = rule_based.
C19_NoKeyLostNoRowInvented ==
    AfterClean =>
        /\ \A i \in DOMAIN InputRows :
               \E o \in DOMAIN tags_df :
                   key_of(tags_df[o]) = key_of(InputRows[i])
        /\ \A o \in DOMAIN tags_df :
               /\ DOMAIN tags_df[o] = InputColumns \cup {"model"}
               /\ tags_df[o].model = "rule_based"
               /\ \E i \in DOMAIN InputRows :
                      \A c \in InputColumns : tags_df[o][c] = InputRows[i][c]

\* the input held a row twice and a row of a weaker tier, and the output
\* holds fewer rows than the input
C19_Witness ==
    /\ AfterClean
    /\ \E i, j \in DOMAIN InputRows : i # j /\ InputRows[i] = InputRows[j]
    /\ \E i, j \in DOMAIN InputRows :
           /\ key_of(InputRows[i]) = key_of(InputRows[j])
           /\ InputRows[i].strength # InputRows[j].strength
    /\ tags_df # <<>>
    /\ Len(tags_df) < Len(InputRows)

====
